---- MODULE Spec2Model ----
(***************************************************************************)
(* pyznap.main: the command line entry point of pyznap.                    *)
(*                                                                         *)
(* The model covers _main from the pidfile lock (check_pid, the write of   *)
(* the own pid) through the dispatch of the command (setup, full, snap,    *)
(* send) to the release of the lock in the finally block and the exit code *)
(* returned through main.  Several pyznap processes ("runs") share one     *)
(* pidfile path; each step of a run that touches the file system is one    *)
(* action, so that runs interleave at the granularity of system calls.     *)
(*                                                                         *)
(* Python values: a str is a sequence of one-character strings, None or a  *)
(* value v is the sequence <<>> or <<v>> (Option), a list [v] is <<v>>.    *)
(***************************************************************************)
EXTENDS Integers, Sequences, FiniteSets, TLC

\* Number of pyznap processes started with the same --pidfile path.
NRuns == 2

Runs == 1 .. NRuns

VARIABLES
    file,       \* the pidfile path: [exists, gen, content]
    pc,         \* per run: position in _main / check_pid
    args,       \* per run: the parsed command line (args of _main)
    pidtext,    \* per run: what check_pid read from the pidfile
    seen,       \* per run: what check_pid found: "absent", "free", "held"
    mygen,      \* per run: the file (inode) the run's open(.., "w") returned
    fired,      \* per run: ErrorHandler e.fired
    todo,       \* per run: the phase calls the dispatched branch still makes
    hist,       \* per run: the phase calls made, their argument and outcome
    pend,       \* per run: how the try block was left (what follows finally)
    cause,      \* per run: why the process ended
    exitcode    \* per run: {} while running, else {the exit code}

vars == <<file, pc, args, pidtext, seen, mygen, fired, todo, hist, pend, cause,
          exitcode>>

-----------------------------------------------------------------------------
(* Python values                                                           *)

None == <<>>

Some(v) == <<v>>

\* bool(x) of an Optional[str]: None and "" are falsy.
Truthy(opt) == opt /= None /\ opt[1] /= <<>>

Digits == <<"0", "1", "2", "3", "4", "5", "6", "7", "8", "9">>

Whitespace == {" ", "\n", "\t"}

RECURSIVE FormatInt(_)
\* "{}".format(n) for n >= 0
FormatInt(n) ==
    IF n < 10 THEN <<Digits[n + 1]>>
    ELSE FormatInt(n \div 10) \o <<Digits[(n % 10) + 1]>>

\* "{}\n".format(os.getpid())
FormatPid(p) == FormatInt(p) \o <<"\n">>

RECURSIVE LStrip(_)
LStrip(s) ==
    IF s /= <<>> /\ Head(s) \in Whitespace THEN LStrip(Tail(s)) ELSE s

RECURSIVE RStrip(_)
RStrip(s) ==
    IF s /= <<>> /\ s[Len(s)] \in Whitespace
    THEN RStrip(SubSeq(s, 1, Len(s) - 1)) ELSE s

\* str.strip()
Strip(s) == RStrip(LStrip(s))

DigitVal(c) == CHOOSE d \in 0 .. 9 : Digits[d + 1] = c

IsDigit(c) == \E d \in 0 .. 9 : Digits[d + 1] = c

\* int(s) raises ValueError unless s is a non-empty run of decimal digits
IsIntText(s) == s /= <<>> /\ \A i \in 1 .. Len(s) : IsDigit(s[i])

RECURSIVE IntOf(_)
IntOf(s) ==
    IF Len(s) = 1 THEN DigitVal(s[1])
    ELSE 10 * IntOf(SubSeq(s, 1, Len(s) - 1)) + DigitVal(s[Len(s)])

-----------------------------------------------------------------------------
(* Processes                                                               *)

\* os.getpid() of run r
Pid(r) == r

\* The pid a crashed earlier process left in the pidfile: no such process.
StalePid == NRuns + 1

\* The pid of a live process that is none of the runs.
ForeignPid == NRuns + 2

Terminated(r) == pc[r] = "done"

\* psutil.Process(pidno) succeeds: the process exists
ProcessExists(pidno) ==
    \/ pidno = ForeignPid
    \/ \E r \in Runs : Pid(r) = pidno /\ pc[r] \notin {"off", "done"}

-----------------------------------------------------------------------------
(* The pidfile                                                             *)

\* gen counts the files created at the path so far: while the file exists it
\* identifies the file (its inode), so that a file removed and created again
\* is told from the file that was there before.
NoFile == [exists |-> FALSE, gen |-> 0, content |-> <<>>]

FileWith(g, text) == [exists |-> TRUE, gen |-> g, content |-> text]

\* os.unlink(path) of an existing file
Removed(f) == [exists |-> FALSE, gen |-> f.gen, content |-> <<>>]

\* open(path, "w"): truncates the file, creating it when it is absent
Truncated(f) ==
    IF f.exists THEN FileWith(f.gen, <<>>) ELSE FileWith(f.gen + 1, <<>>)

\* The pidfile before any run starts: absent, or left by an earlier process
\* (empty, not a number, the pid of a dead process, the pid of a live one).
InitFiles ==
    { NoFile,
      FileWith(1, <<>>),
      FileWith(1, <<"x", "\n">>),
      FileWith(1, FormatPid(StalePid)),
      FileWith(1, FormatPid(ForeignPid)) }

-----------------------------------------------------------------------------
(* The command line                                                        *)

Commands == {"setup", "full", "snap", "send"}

\* Dataset locators: a local one, and one with the ssh marker.
LocalName == <<"t", "a", "n", "k">>

RemoteName == <<"s", "s", "h", ":", "h", ":", "t", "a", "n", "k">>

Locators == {None, Some(LocalName), Some(RemoteName)}

\* Values of -i, -j and -k: not given, the empty string, a key file.
KeysI == {None, Some(<<>>), Some(<<"k", "i">>)}

KeysJ == {None, Some(<<>>), Some(<<"k", "j">>)}

KeysK == {None, Some(<<>>), Some(<<"k", "k">>)}

NoSnapFlags == [take |-> FALSE, clean |-> FALSE, full |-> FALSE]

NoSendOpts ==
    [source |-> None, dest |-> None, key |-> None, source_key |-> None,
     dest_key |-> None]

MkArgs(pidfile, command, snap, send) ==
    [pidfile |-> pidfile, command |-> command, take |-> snap.take,
     clean |-> snap.clean, full |-> snap.full, source |-> send.source,
     dest |-> send.dest, key |-> send.key, source_key |-> send.source_key,
     dest_key |-> send.dest_key]

SnapFlags == [take : BOOLEAN, clean : BOOLEAN, full : BOOLEAN]

SendOpts(ki, kj, kk) ==
    [source : Locators, dest : Locators, key : ki, source_key : kj,
     dest_key : kk]

\* parser.parse_args(): the namespaces the subparsers can produce
ParsedArgs(ki, kj, kk) ==
    UNION { {MkArgs(p, "setup", NoSnapFlags, NoSendOpts),
             MkArgs(p, "full", NoSnapFlags, NoSendOpts)}
            \cup {MkArgs(p, "snap", f, NoSendOpts) : f \in SnapFlags}
            \cup {MkArgs(p, "send", NoSnapFlags, o) : o \in SendOpts(ki, kj, kk)}
          : p \in BOOLEAN }

\* Every command line of one run.
CliArgs == ParsedArgs(KeysI, KeysJ, KeysK)

\* The command lines of concurrent runs: all name the pidfile, and there is
\* one per branch of the dispatch (setup, full, snap, send from the config
\* file, send with the destination missing); the flags and keys left out
\* reach only the phases called and the record handed to send_config.
LockArgs ==
    {a \in ParsedArgs({None}, {None}, {None}) :
        /\ a.pidfile
        /\ ~a.take /\ ~a.clean /\ ~a.full
        /\ a.source \in {None, Some(LocalName)}
        /\ a.dest = None}

-----------------------------------------------------------------------------
(* send: the record built from the command line                            *)

RECURSIVE StartsWith(_, _)
\* str.startswith(prefix)
StartsWith(s, prefix) ==
    \/ prefix = <<>>
    \/ /\ s /= <<>>
       /\ Head(s) = Head(prefix)
       /\ StartsWith(Tail(s), Tail(prefix))

Ssh == <<"s", "s", "h">>

IsRemote(loc) == StartsWith(loc, Ssh)

\* lines 212-216: args.key goes to dest when dest is remote, else to source
\* when source is remote
GenericDestKeys(a) ==
    IF IsRemote(a.dest[1])
    THEN (IF Truthy(a.key) THEN Some(<<a.key[1]>>) ELSE None)
    ELSE None

\* Mutant: the key goes to the source on the destination's condition.
GenericSourceKey_OnDest(a) ==
    IF IsRemote(a.dest[1])
    THEN (IF Truthy(a.key) THEN a.key ELSE None)
    ELSE None

\* Mutant: "if" for the "elif" of line 215.
GenericSourceKey_If(a) ==
    IF IsRemote(a.source[1])
    THEN (IF Truthy(a.key) THEN a.key ELSE None)
    ELSE None

GenericSourceKey(a) ==
    IF ~IsRemote(a.dest[1]) /\ IsRemote(a.source[1])
    THEN (IF Truthy(a.key) THEN a.key ELSE None)
    ELSE None

\* Mutant: the generic key wins over --source-key.
SourceKey_GenericFirst(a) ==
    IF GenericSourceKey(a) /= None THEN GenericSourceKey(a)
    ELSE IF Truthy(a.source_key) THEN a.source_key ELSE None

\* line 218
SourceKey(a) ==
    IF Truthy(a.source_key) THEN a.source_key ELSE GenericSourceKey(a)

\* line 219
DestKeys(a) ==
    IF Truthy(a.dest_key) THEN Some(<<a.dest_key[1]>>) ELSE GenericDestKeys(a)

\* The config read from the config file, as handed to the phases.
ConfigFile ==
    [kind |-> "config", name |-> <<>>, dest |-> <<>>, key |-> None,
     dest_keys |-> None]

\* lines 190-191: create_config gets a path, not a config
SetupPath ==
    [kind |-> "path", name |-> <<>>, dest |-> <<>>, key |-> None,
     dest_keys |-> None]

\* lines 235-238: the one-entry config built from the command line
SendRecord(a) ==
    [kind |-> "cli", name |-> a.source[1], dest |-> <<a.dest[1]>>,
     key |-> SourceKey(a), dest_keys |-> DestKeys(a)]

Call(ph, cfg) == [ph |-> ph, cfg |-> cfg]

-----------------------------------------------------------------------------
(* The phases each command runs                                            *)

\* Mutant: clean before send.
FullPhases_CleanFirst ==
    <<Call("take", ConfigFile), Call("clean", ConfigFile),
      Call("send", ConfigFile)>>

\* lines 193-196
FullPhases ==
    <<Call("take", ConfigFile), Call("send", ConfigFile),
      Call("clean", ConfigFile)>>

\* line 200-201: the default when neither --take nor --clean is given
SnapFull(a) == a.full \/ (~a.take /\ ~a.clean)

\* Mutant: the default and --full do not take.
SnapTakes_OnlyFlag(a) == a.take

\* line 203
SnapTakes(a) == a.take \/ SnapFull(a)

\* line 206
SnapCleans(a) == a.clean \/ SnapFull(a)

\* lines 198-207
SnapPhases(a) ==
    (IF SnapTakes(a) THEN <<Call("take", ConfigFile)>> ELSE <<>>)
    \o (IF SnapCleans(a) THEN <<Call("clean", ConfigFile)>> ELSE <<>>)

\* lines 209-245
SendPhases(a) ==
    IF Truthy(a.source) /\ Truthy(a.dest)
    THEN <<Call("send", SendRecord(a))>>
    ELSE IF Truthy(a.source) \/ Truthy(a.dest)
    THEN <<>>
    ELSE <<Call("send", ConfigFile)>>

\* lines 240-243: logger.error('Missing dest...') / ('Missing source...')
SendLogsError(a) ==
    /\ a.command = "send"
    /\ Truthy(a.source) /= Truthy(a.dest)

\* lines 189-245: the calls of the branch the command selects
Phases(a) ==
    CASE a.command = "setup" -> <<Call("setup", SetupPath)>>
      [] a.command = "full" -> FullPhases
      [] a.command = "snap" -> SnapPhases(a)
      [] a.command = "send" -> SendPhases(a)

\* line 183
NeedsConfig(a) == a.command \in {"snap", "send", "full"}

-----------------------------------------------------------------------------
(* Initial states                                                          *)

IdleArgs == MkArgs(FALSE, "setup", NoSnapFlags, NoSendOpts)

InitLocals ==
    /\ pidtext = [r \in Runs |-> <<>>]
    /\ seen = [r \in Runs |-> "nothing"]
    /\ mygen = [r \in Runs |-> 0]
    /\ fired = [r \in Runs |-> FALSE]
    /\ todo = [r \in Runs |-> <<>>]
    /\ hist = [r \in Runs |-> <<>>]
    /\ pend = [r \in Runs |-> "none"]
    /\ cause = [r \in Runs |-> "running"]
    /\ exitcode = [r \in Runs |-> {}]

\* All runs have been started and have parsed their command line.
Init ==
    /\ file \in InitFiles
    /\ pc = [r \in Runs |-> "start"]
    /\ args \in [Runs -> LockArgs]
    /\ InitLocals

\* One run on its own, with any command line.
InitOne ==
    /\ file \in InitFiles
    /\ pc = [r \in Runs |-> IF r = 1 THEN "start" ELSE "off"]
    /\ \E a \in CliArgs : args = [r \in Runs |-> IF r = 1 THEN a ELSE IdleArgs]
    /\ InitLocals

-----------------------------------------------------------------------------
(* Ways a process ends                                                     *)

\* The process ends with exit code c: sys.exit(c), a return value handed to
\* sys.exit by line 273, or an uncaught exception (exit code 1).
Exit(r, c, why) ==
    /\ pc' = [pc EXCEPT ![r] = "done"]
    /\ exitcode' = [exitcode EXCEPT ![r] = {c}]
    /\ cause' = [cause EXCEPT ![r] = why]

\* Leave the try block towards finally.
Leave(r, how) ==
    /\ pc' = [pc EXCEPT ![r] = "finally"]
    /\ pend' = [pend EXCEPT ![r] = how]

-----------------------------------------------------------------------------
(* Lock acquisition: lines 175-179 and check_pid                           *)

\* line 175
Start(r) ==
    /\ pc[r] = "start"
    /\ pc' = [pc EXCEPT ![r] = IF args[r].pidfile THEN "exists" ELSE "try"]
    /\ UNCHANGED <<file, args, pidtext, seen, mygen, fired, todo, hist, pend, cause,
                   exitcode>>

\* line 36: os.path.exists; when absent check_pid returns True (line 49)
Exists(r) ==
    /\ pc[r] = "exists"
    /\ pc' = [pc EXCEPT ![r] = IF file.exists THEN "read" ELSE "open"]
    /\ seen' = [seen EXCEPT ![r] = IF file.exists THEN seen[r] ELSE "absent"]
    /\ UNCHANGED <<file, args, pidtext, mygen, fired, todo, hist, pend, cause,
                   exitcode>>

\* line 39: open(path, "r").read().strip(), then int(); a file removed since
\* line 36 raises FileNotFoundError, which nothing catches
ReadPid(r) ==
    /\ pc[r] = "read"
    /\ IF ~file.exists
       THEN /\ Exit(r, 1, "oserror")
            /\ UNCHANGED <<pidtext, seen>>
       ELSE /\ pidtext' = [pidtext EXCEPT ![r] = Strip(file.content)]
            /\ seen' = [seen EXCEPT ![r] =
                          IF IsIntText(Strip(file.content)) THEN seen[r]
                          ELSE "free"]
            /\ pc' = [pc EXCEPT ![r] =
                        IF IsIntText(Strip(file.content)) THEN "probe"
                        ELSE "unlink"]
            /\ UNCHANGED <<cause, exitcode>>
    /\ UNCHANGED <<file, args, mygen, fired, todo, hist, pend>>

\* lines 41-43: psutil.Process(pidno); alive: check_pid returns False and
\* _main exits (lines 177-178)
Probe(r) ==
    /\ pc[r] = "probe"
    /\ IF ProcessExists(IntOf(pidtext[r]))
       THEN /\ Exit(r, 1, "contention")
            /\ seen' = [seen EXCEPT ![r] = "held"]
       ELSE /\ pc' = [pc EXCEPT ![r] = "unlink"]
            /\ seen' = [seen EXCEPT ![r] = "free"]
            /\ UNCHANGED <<cause, exitcode>>
    /\ UNCHANGED <<file, args, pidtext, mygen, fired, todo, hist, pend>>

\* lines 45 and 48: os.unlink of the stale pidfile, then return True
UnlinkStale(r) ==
    /\ pc[r] = "unlink"
    /\ IF ~file.exists
       THEN /\ Exit(r, 1, "oserror")
            /\ UNCHANGED file
       ELSE /\ file' = Removed(file)
            /\ pc' = [pc EXCEPT ![r] = "open"]
            /\ UNCHANGED <<cause, exitcode>>
    /\ UNCHANGED <<args, pidtext, seen, mygen, fired, todo, hist, pend>>

\* line 179: open(args.pidfile, "w")
OpenPidfile(r) ==
    /\ pc[r] = "open"
    /\ file' = Truncated(file)
    /\ mygen' = [mygen EXCEPT ![r] = file'.gen]
    /\ pc' = [pc EXCEPT ![r] = "write"]
    /\ UNCHANGED <<args, pidtext, seen, fired, todo, hist, pend, cause, exitcode>>

\* What the path holds after run r wrote its pid through the file it opened:
\* a file removed from the path in between is written to, but no longer there.
Written(f, r) ==
    IF f.exists /\ f.gen = mygen[r] THEN FileWith(f.gen, FormatPid(Pid(r)))
    ELSE f

\* line 179: .write("{}\n".format(os.getpid())), and the close that flushes it
WritePid(r) ==
    /\ pc[r] = "write"
    /\ file' = Written(file, r)
    /\ pc' = [pc EXCEPT ![r] = "try"]
    /\ UNCHANGED <<args, pidtext, seen, mygen, fired, todo, hist, pend, cause,
                   exitcode>>

-----------------------------------------------------------------------------
(* The try block: lines 180-248                                            *)

Event(c, ev) == [ph |-> c.ph, cfg |-> c.cfg, ev |-> ev]

\* Where a run goes once a call has returned or none is to be made.
AfterCalls(rest) == IF rest = <<>> THEN "finished" ELSE "call"

\* lines 183-187: read_config; None makes _main return 1
ReadConfig(r) ==
    /\ pc[r] = "try"
    /\ \E config \in {"None", "config"} :
          IF NeedsConfig(args[r]) /\ config = "None"
          THEN Leave(r, "config")
          ELSE /\ pc' = [pc EXCEPT ![r] = "dispatch"]
               /\ UNCHANGED pend
    /\ UNCHANGED <<file, args, pidtext, seen, mygen, fired, todo, hist, cause,
                   exitcode>>

\* lines 189-245: the branch of the command; a send with only one of source
\* and dest logs an error, which fires the ErrorHandler
Dispatch(r) ==
    /\ pc[r] = "dispatch"
    /\ todo' = [todo EXCEPT ![r] = Phases(args[r])]
    /\ fired' = [fired EXCEPT ![r] = fired[r] \/ SendLogsError(args[r])]
    /\ pc' = [pc EXCEPT ![r] = AfterCalls(Phases(args[r]))]
    /\ UNCHANGED <<file, args, pidtext, seen, mygen, hist, pend, cause, exitcode>>

\* take_config / send_config / clean_config / create_config is entered
PhaseCall(r) ==
    /\ pc[r] = "call"
    /\ hist' = [hist EXCEPT ![r] = Append(hist[r], Event(Head(todo[r]), "call"))]
    /\ pc' = [pc EXCEPT ![r] = "in_phase"]
    /\ UNCHANGED <<file, args, pidtext, seen, mygen, fired, todo, pend, cause,
                   exitcode>>

\* The phase returns ("return"), returns having logged an error, which fires
\* the ErrorHandler ("error"), or raises.
PhaseReturn(r) ==
    /\ pc[r] = "in_phase"
    /\ \E outcome \in {"ok", "error", "raise"} :
          IF outcome = "raise"
          THEN /\ hist' = [hist EXCEPT ![r] =
                             Append(hist[r], Event(Head(todo[r]), "raise"))]
               /\ Leave(r, "exception")
               /\ UNCHANGED <<fired, todo>>
          ELSE /\ hist' = [hist EXCEPT ![r] =
                             Append(hist[r], Event(Head(todo[r]),
                                    IF outcome = "error" THEN "error"
                                    ELSE "return"))]
               /\ fired' = [fired EXCEPT ![r] = fired[r] \/ outcome = "error"]
               /\ todo' = [todo EXCEPT ![r] = Tail(todo[r])]
               /\ pc' = [pc EXCEPT ![r] = AfterCalls(Tail(todo[r]))]
               /\ UNCHANGED pend
    /\ UNCHANGED <<file, args, pidtext, seen, mygen, cause, exitcode>>

\* lines 247-248: zfs.STATS.log() and 'Finished successfully...'
Finished(r) ==
    /\ pc[r] = "finished"
    /\ Leave(r, "return")
    /\ UNCHANGED <<file, args, pidtext, seen, mygen, fired, todo, hist, cause,
                   exitcode>>

-----------------------------------------------------------------------------
(* Lock release and exit: lines 249-252, 265-269, 273                      *)

\* Mutant: e.fired is ignored.
ExitCodeAfter_NoErrors(how, errors) == IF how = "return" THEN 0 ELSE 1

\* line 252, line 187, an exception passing through, line 269
ExitCodeAfter(how, errors) ==
    CASE how = "return" -> (IF errors THEN 1 ELSE 0)
      [] how = "config" -> 1
      [] how = "exception" -> 1
      [] how = "interrupt" -> 1

\* lines 249-251: os.unlink(args.pidfile); FileNotFoundError when the file is
\* gone replaces whatever left the try block
Finally(r) ==
    /\ pc[r] = "finally"
    /\ IF args[r].pidfile /\ ~file.exists
       THEN /\ Exit(r, 1, "oserror")
            /\ UNCHANGED file
       ELSE /\ file' = IF args[r].pidfile THEN Removed(file) ELSE file
            /\ Exit(r, ExitCodeAfter(pend[r], fired[r]), pend[r])
    /\ UNCHANGED <<args, pidtext, seen, mygen, fired, todo, hist, pend>>

InTry(r) == pc[r] \in {"try", "dispatch", "call", "in_phase", "finished"}

\* KeyboardInterrupt (SIGINT) is raised at whatever _main is executing.
\* Inside the try block the finally block runs before main catches it
\* (lines 267-269); anywhere else main catches it at once.
Interrupt(r) ==
    /\ pc[r] \notin {"off", "done"}
    /\ IF InTry(r)
       THEN /\ Leave(r, "interrupt")
            /\ hist' = [hist EXCEPT ![r] =
                          IF pc[r] = "in_phase"
                          THEN Append(hist[r], Event(Head(todo[r]), "raise"))
                          ELSE hist[r]]
            /\ UNCHANGED <<cause, exitcode>>
       ELSE /\ Exit(r, 1, "interrupt")
            /\ UNCHANGED <<hist, pend>>
    /\ UNCHANGED <<file, args, pidtext, seen, mygen, fired, todo>>

-----------------------------------------------------------------------------

Next ==
    \E r \in Runs :
        \/ Start(r)
        \/ Exists(r)
        \/ ReadPid(r)
        \/ Probe(r)
        \/ UnlinkStale(r)
        \/ OpenPidfile(r)
        \/ WritePid(r)
        \/ ReadConfig(r)
        \/ Dispatch(r)
        \/ PhaseCall(r)
        \/ PhaseReturn(r)
        \/ Finished(r)
        \/ Finally(r)
        \/ Interrupt(r)

\* Concurrent runs sharing the pidfile.
Spec == Init /\ [][Next]_vars

\* A single run.
SpecOne == InitOne /\ [][Next]_vars

-----------------------------------------------------------------------------
(* Properties                                                              *)

\* Run r wrote its pid (line 179) and has not yet passed the finally block.
Acquired(r) == InTry(r) \/ pend[r] /= "none"

HoldsLock(r) == args[r].pidfile /\ (InTry(r) \/ pc[r] = "finally")

\* The lock acquisition of run r came to its end without being interrupted.
AcquisitionOver(r) ==
    Acquired(r) \/ (Terminated(r) /\ cause[r] /= "interrupt")

Calls(r, ph) ==
    {i \in DOMAIN hist[r] : hist[r][i].ph = ph /\ hist[r][i].ev = "call"}

Ran(r, ph) == Calls(r, ph) /= {}

\* C1: of the runs started with the same --pidfile, at most one at a time is
\* between having written its pid and the release of the lock.
C1_MutualExclusion ==
    \A r, s \in Runs : r /= s => ~(HoldsLock(r) /\ HoldsLock(s))

\* C10: while a run that acquired the lock is still executing, the pidfile
\* exists and records that run's pid.
C10_LockKept ==
    \A r \in Runs :
        HoldsLock(r) =>
            /\ file.exists
            /\ IsIntText(Strip(file.content))
            /\ IntOf(Strip(file.content)) = Pid(r)

\* C2: with a pidfile given a run goes on (and writes its pid) exactly when
\* it found the pidfile absent or not naming a live process; when the file
\* names a live process the run exits with code 1 before any phase.
C2_AcquireExactlyWhenFree ==
    \A r \in Runs :
        args[r].pidfile /\ AcquisitionOver(r) =>
            /\ Acquired(r) <=> seen[r] \in {"absent", "free"}
            /\ seen[r] = "held" =>
                  Terminated(r) /\ exitcode[r] = {1} /\ hist[r] = <<>>

\* C3: once a run that acquired the lock has terminated, the file it wrote
\* its pid to is no longer at the pidfile path.
C3_LockReleased ==
    \A r \in Runs :
        args[r].pidfile /\ Acquired(r) /\ Terminated(r) =>
            ~(file.exists /\ file.gen = mygen[r])

-----------------------------------------------------------------------------
(* Exit code                                                               *)

PhaseFailed(r) ==
    \E i \in DOMAIN hist[r] : hist[r][i].ev \in {"error", "raise"}

WasInterrupted(r) == cause[r] = "interrupt" \/ pend[r] = "interrupt"

\* The failures the claim lists: config not read, lock contention, interrupt,
\* an error reported by a phase.
ListedFailure(r) ==
    \/ pend[r] = "config"
    \/ cause[r] = "contention"
    \/ WasInterrupted(r)
    \/ PhaseFailed(r)

\* send was given only one of --source and --dest
MissingEndpoint(a) ==
    /\ a.command = "send"
    /\ \/ Truthy(a.source) /\ ~Truthy(a.dest)
       \/ Truthy(a.dest) /\ ~Truthy(a.source)

-----------------------------------------------------------------------------
(* send: the keys handed to send_config                                    *)

\* send with both --source and --dest: the record is built from the options
FromCli(a) == a.command = "send" /\ Truthy(a.source) /\ Truthy(a.dest)

SourceRemote(a) == IsRemote(a.source[1])

DestRemote(a) == IsRemote(a.dest[1])

Supplied(a) ==
    {k \in {"key", "source_key", "dest_key"} : Truthy(a[k])}

OnlyGeneric(a) == Supplied(a) = {"key"}

\* [v] for a supplied option
ListOf(opt) == Some(<<opt[1]>>)

C6_GenericKeyToRemoteSide ==
    \A r \in Runs :
        LET a == args[r] IN
        FromCli(a) /\ OnlyGeneric(a) =>
            \A i \in Calls(r, "send") :
                LET cfg == hist[r][i].cfg IN
                /\ SourceRemote(a) /\ ~DestRemote(a) =>
                      cfg.key = a.key /\ cfg.dest_keys = None
                /\ ~SourceRemote(a) /\ DestRemote(a) =>
                      cfg.key = None /\ cfg.dest_keys = ListOf(a.key)

C6_Witness ==
    \E r \in Runs :
        /\ FromCli(args[r]) /\ OnlyGeneric(args[r])
        /\ SourceRemote(args[r]) /\ ~DestRemote(args[r])
        /\ Ran(r, "send")

\* C7: a supplied --source-key is the source key and a supplied --dest-key
\* the destination key, whatever the generic key and whichever side is
\* remote.
C7_SideKeyOverrides ==
    \A r \in Runs :
        LET a == args[r] IN
        FromCli(a) =>
            \A i \in Calls(r, "send") :
                LET cfg == hist[r][i].cfg IN
                /\ Truthy(a.source_key) => cfg.key = a.source_key
                /\ Truthy(a.dest_key) => cfg.dest_keys = ListOf(a.dest_key)

C7_Witness ==
    \E r \in Runs :
        /\ FromCli(args[r])
        /\ Supplied(args[r]) = {"key", "source_key", "dest_key"}
        /\ SourceRemote(args[r]) /\ ~DestRemote(args[r])
        /\ Ran(r, "send")

-----------------------------------------------------------------------------
(* full and snap: the phases                                               *)

Returned(e) == e.ev \in {"return", "error"}

FullOrder == <<"take", "send", "clean">>

\* C8: full calls take, send and clean in this order, each at most once and
\* each after the one before has returned; after a phase that raised no
\* other phase is called.
C8_FullOrder ==
    \A r \in Runs :
        args[r].command = "full" =>
            /\ Len(hist[r]) <= 6
            /\ \A i \in DOMAIN hist[r] :
                  /\ hist[r][i].ph = FullOrder[(i + 1) \div 2]
                  /\ i % 2 = 1 => hist[r][i].ev = "call"
                  /\ i % 2 = 0 => hist[r][i].ev /= "call"
                  /\ i < Len(hist[r]) /\ i % 2 = 0 => Returned(hist[r][i])

C8_Witness ==
    \E r \in Runs :
        /\ args[r].command = "full"
        /\ Len(hist[r]) = 6
        /\ Returned(hist[r][6])

TakeFlag(a) == a.take \/ a.full \/ (~a.take /\ ~a.clean)

CleanFlag(a) == a.clean \/ a.full \/ (~a.take /\ ~a.clean)

\* take has returned before clean is called; no phase is called twice
TakeBeforeClean(r) ==
    /\ Cardinality(Calls(r, "take")) <= 1
    /\ Cardinality(Calls(r, "clean")) <= 1
    /\ \A i \in Calls(r, "clean") :
          \A j \in Calls(r, "take") :
              j + 1 < i /\ Returned(hist[r][j + 1])

====
